---- MODULE Spec2Model ----
(***************************************************************************)
(* gatsby-source-dropbox: src/gatsby-node.js.                              *)
(*                                                                         *)
(* sourceNodes lists a Dropbox folder (getData), turns the listing into    *)
(* file and folder nodes (createNodeData, getLinkedNodes) and then, for    *)
(* every node concurrently, downloads the file behind it unless the cache  *)
(* already knows it (processRemoteFile) and hands the node to createNode.  *)
(*                                                                         *)
(* Strings whose characters the code inspects (names, paths, extensions)   *)
(* are sequences of one-character strings.                                 *)
(***************************************************************************)
EXTENDS Integers, Sequences, FiniteSets, TLC

\* ------------------------------------------------------------------ bounds
MaxEntries == 3
MaxRuns == 2

\* --------------------------------------------------------------- constants
TYPE_MARKDOWN == "dropboxMarkdown"
TYPE_IMAGE == "dropboxImage"
TYPE_FOLDER == "dropboxFolder"
TYPE_DEFAULT == "dropboxNode"

EXT_MD == <<".", "m", "d">>
EXT_PNG == <<".", "p", "n", "g">>
EXT_JPG == <<".", "j", "p", "g">>
EXT_PDF == <<".", "p", "d", "f">>

\* defaultOptions.extensions
DefaultExtensions == {EXT_JPG, EXT_PNG, EXT_MD}

\* the name of a node that has no name field
Undefined == <<"undefined">>

\* the string `root`
ROOT == <<"r", "o", "o", "t">>

\* no fileNodeID / no localFile___NODE / no cache entry
NoRef == <<>>

\* ------------------------------------------------------- string primitives
\* String.prototype.lastIndexOf, 1-based, 0 when absent
LastIndexOf(s, c) ==
  LET hits == {i \in 1..Len(s) : s[i] = c}
  IN  IF hits = {} THEN 0 ELSE CHOOSE i \in hits : \A j \in hits : j <= i

\* String.prototype.indexOf, 1-based, 0 when absent
IndexOf(s, c) ==
  LET hits == {i \in 1..Len(s) : s[i] = c}
  IN  IF hits = {} THEN 0 ELSE CHOOSE i \in hits : \A j \in hits : i <= j

\* s.replace(c, ``) with a string pattern: only the first occurrence goes
ReplaceFirst(s, c) ==
  LET i == IndexOf(s, c)
  IN  IF i = 0 THEN s ELSE SubSeq(s, 1, i - 1) \o SubSeq(s, i + 1, Len(s))

\* path.basename(p)
Basename(p) == SubSeq(p, LastIndexOf(p, "/") + 1, Len(p))

\* path.extname(p): from the last dot of the base name; empty when there is
\* no dot or the only dot starts the base name
Extname(p) ==
  LET b == Basename(p)
      i == LastIndexOf(b, ".")
  IN  IF i <= 1 THEN <<>> ELSE SubSeq(b, i, Len(b))

\* a || b on strings
JsOr(a, b) == IF a # <<>> THEN a ELSE b

\* ------------------------------------------------------------ the listings
File(id, p) == [tag |-> "file", id |-> id, name |-> Basename(p), path_display |-> p]
Folder(id, p) == [tag |-> "folder", id |-> id, name |-> Basename(p), path_display |-> p]

\* entries a listing of SpecNodes is drawn from
Universe ==
  << File("f1", <<"/", "a", ".", "m", "d">>),
     File("f2", <<"/", "d", "/", "b", ".", "p", "n", "g">>),
     File("f3", <<"/", "d", "/", "c", ".", "j", "p", "g">>),
     File("f4", <<"/", "x", "/", "d", "/", "e", ".", "m", "d">>),
     File("f5", <<"/", "g", ".", "t", "x", "t">>),
     File("f6", <<"/", "h", ".", "p", "d", "f">>),
     Folder("d1", <<"/", "d">>),
     Folder("d2", <<"/", "x", "/", "d">>),
     Folder("d3", <<"/", "x">>),
     Folder("d4", <<"/", "r", "o", "o", "t">>) >>

\* entries a listing of Spec is drawn from
RunUniverse ==
  << File("f1", <<"/", "a", ".", "m", "d">>),
     File("f2", <<"/", "d", "/", "b", ".", "p", "n", "g">>),
     File("f3", <<"/", "d", "/", "c", ".", "j", "p", "g">>),
     Folder("d1", <<"/", "d">>) >>

Ids == {Universe[i].id : i \in 1..Len(Universe)} \cup {"dropboxRoot"}

RECURSIVE Pick(_, _, _)
\* the entries of u whose index is in S, in u's order, from index i on
Pick(u, S, i) ==
  IF i > Len(u) THEN <<>>
  ELSE IF i \in S THEN <<u[i]>> \o Pick(u, S, i + 1)
  ELSE Pick(u, S, i + 1)

Listings(u) ==
  {Pick(u, S, 1) : S \in {T \in SUBSET (1..Len(u)) : Cardinality(T) <= MaxEntries}}

\* ---------------------------------------------------------- pure functions
\* (Array.prototype.filter is SelectSeq)
extractFiles(d, opts) ==
  LET keep(e) == e.tag = "file" /\ Extname(e.name) \in opts.extensions
  IN  SelectSeq(d.entries, keep)

extractFolders(d) ==
  LET keep(e) == e.tag = "folder"
  IN  SelectSeq(d.entries, keep)

\* the label of the second case of the switch: `.png` || `.jpg`
ImageCase == JsOr(EXT_PNG, EXT_JPG)

getNodeType(file, opts) ==
  IF opts.createFolderNodes
  THEN LET extension == Extname(file.path_display)
       IN  IF extension = EXT_MD THEN TYPE_MARKDOWN
           ELSE IF extension = ImageCase THEN TYPE_IMAGE
           ELSE TYPE_DEFAULT
  ELSE TYPE_DEFAULT

getParentFolderName(file) ==
  LET p == file.path
      parentFolderName == ReplaceFirst(SubSeq(p, 1, LastIndexOf(p, "/") - 1), "/")
  IN  IF parentFolderName = <<>> THEN ROOT ELSE parentFolderName

Node(id, type, name, p) ==
  [id |-> id, type |-> type, name |-> name, path |-> p,
   dropboxImage |-> <<>>, dropboxMarkdown |-> <<>>, localFile |-> NoRef]

RECURSIVE IdsOf(_)
IdsOf(s) == IF s = <<>> THEN <<>> ELSE <<Head(s).id>> \o IdsOf(Tail(s))

\* the file nodes of createNodeData
FileNodes(d, opts) ==
  LET files == extractFiles(d, opts)
  IN  [i \in 1..Len(files) |->
         Node(files[i].id, getNodeType(files[i], opts), files[i].name,
              files[i].path_display)]

\* the synthetic folder node of the app's home directory: it has an id and a
\* type, and neither name nor path
RootFolderNode == Node("dropboxRoot", TYPE_FOLDER, Undefined, Undefined)

\* the folder nodes of createNodeData, the home directory's last
FolderNodes(d) ==
  LET folders == extractFolders(d)
  IN  [i \in 1..Len(folders) |->
         Node(folders[i].id, TYPE_FOLDER, folders[i].name, folders[i].path_display)]
      \o <<RootFolderNode>>

getLinkedNodes(folderNodes, fileNodes) ==
  LET related(f) ==
        LET inFolder(file) == getParentFolderName(file) = f.name
        IN  SelectSeq(fileNodes, inFolder)
      isImage(n) == n.type = TYPE_IMAGE
      isMarkdown(n) == n.type = TYPE_MARKDOWN
      linkedNodes ==
        [i \in 1..Len(folderNodes) |->
           [folderNodes[i] EXCEPT
              !.dropboxImage = IdsOf(SelectSeq(related(folderNodes[i]), isImage)),
              !.dropboxMarkdown = IdsOf(SelectSeq(related(folderNodes[i]), isMarkdown))]]
  IN  linkedNodes \o fileNodes

\* createNodeData on a listing response (an object with entries)
createNodeData(d, opts) ==
  IF opts.createFolderNodes
  THEN getLinkedNodes(FolderNodes(d), FileNodes(d, opts))
  ELSE FileNodes(d, opts)

\* ------------------------------------------------------------------- state
VARIABLES
  listing,     \* what filesListFolder answers when it answers
  options,     \* { ...defaultOptions, ...pluginOptions }
  run,         \* which run of sourceNodes this is
  phase,       \* where sourceNodes is: start, fetched, awaiting, resolved, rejected
  data,        \* what getData returned
  nodes,       \* nodeData, each datum as processRemoteFile has changed it so far
  pc,          \* per datum, the await its callback is suspended at
  fileNodeID,  \* per datum, the local of processRemoteFile
  sink,        \* per datum, the nodes createNode was given for it
  cache,       \* the cache, by node id (key dropbox-file-<id>)
  touched,     \* the nodeIds touchNode was given in this run
  outcome,     \* per datum, how its materialization ended
  urlCalls,    \* per datum, calls of getTemporaryUrl in this run
  createCalls, \* per datum, calls of createRemoteFileNode in this run
  prevRef      \* by node id, localFile___NODE at the end of the previous run

vars == <<listing, options, run, phase, data, nodes, pc, fileNodeID, sink, cache,
          touched, outcome, urlCalls, createCalls, prevRef>>

\* a cache entry { fileNodeID }, and the absent one
Entry(ref) == [present |-> TRUE, fileNodeID |-> ref]
NoEntry == [present |-> FALSE, fileNodeID |-> NoRef]

\* pluginOptions over defaultOptions
Options(extensionSets) ==
  [path : {"", "/x"}, extensions : extensionSets, createFolderNodes : BOOLEAN]

Idx == 1..Len(nodes)

IsFileType(t) == t = TYPE_IMAGE \/ t = TYPE_MARKDOWN \/ t = TYPE_DEFAULT

\* the id createRemoteFileNode gives the file node: createNodeId of the
\* temporary link, which differs from one request to the next
NewFileNodeId(id, r) == <<id, r>>

InitWith(u, extensionSets) ==
  /\ listing \in Listings(u)
  /\ options \in Options(extensionSets)
  /\ run = 1
  /\ phase = "start"
  /\ data = [hasEntries |-> FALSE, entries |-> <<>>]
  /\ nodes = <<>>
  /\ pc = <<>>
  /\ fileNodeID = <<>>
  /\ sink = <<>>
  /\ cache = [k \in Ids |-> NoEntry]
  /\ touched = {}
  /\ outcome = <<>>
  /\ urlCalls = <<>>
  /\ createCalls = <<>>
  /\ prevRef = [k \in Ids |-> NoRef]

Init == InitWith(RunUniverse, {DefaultExtensions})

InitNodes == InitWith(Universe, {DefaultExtensions, DefaultExtensions \cup {EXT_PDF}})

\* ----------------------------------------------------------------- getData
\* filesGetMetadata (when options.path is set) and filesListFolder answered
GetDataListed ==
  /\ phase = "start"
  /\ data' = [hasEntries |-> TRUE, entries |-> listing]
  /\ phase' = "fetched"
  /\ UNCHANGED <<listing, options, run, nodes, pc, fileNodeID, sink, cache, touched,
                 outcome, urlCalls, createCalls, prevRef>>

\* what the catch of getData returns: the array []
CaughtListingError == [hasEntries |-> FALSE, entries |-> <<>>]

\* filesGetMetadata or filesListFolder threw
GetDataFailed ==
  /\ phase = "start"
  /\ \E call \in {"filesGetMetadata", "filesListFolder"} :
       call = "filesGetMetadata" => options.path # ""
  /\ data' = CaughtListingError
  /\ phase' = "fetched"
  /\ UNCHANGED <<listing, options, run, nodes, pc, fileNodeID, sink, cache, touched,
                 outcome, urlCalls, createCalls, prevRef>>

\* ------------------------------------------------------------- sourceNodes
\* createNodeData reads data.entries: of the array [] that is undefined, and
\* .filter of undefined throws a TypeError out of sourceNodes
SourceNodesThrows ==
  /\ phase = "fetched"
  /\ ~data.hasEntries
  /\ phase' = "rejected"
  /\ UNCHANGED <<listing, options, run, data, nodes, pc, fileNodeID, sink, cache,
                 touched, outcome, urlCalls, createCalls, prevRef>>

\* createNodeData, then nodeData.map starts every callback: each runs to its
\* first await, cache.get for a file node, processRemoteFile's return for a
\* folder node
SourceNodesDispatch ==
  /\ phase = "fetched"
  /\ data.hasEntries
  /\ LET nodeData == createNodeData(data, options)
         n == Len(nodeData)
     IN  /\ nodes' = nodeData
         /\ pc' = [i \in 1..n |->
                     IF IsFileType(nodeData[i].type) THEN "cacheGet" ELSE "settled"]
         /\ fileNodeID' = [i \in 1..n |-> NoRef]
         /\ sink' = [i \in 1..n |-> <<>>]
         /\ outcome' = [i \in 1..n |-> "none"]
         /\ urlCalls' = [i \in 1..n |-> 0]
         /\ createCalls' = [i \in 1..n |-> 0]
  /\ phase' = "awaiting"
  /\ UNCHANGED <<listing, options, run, data, cache, touched, prevRef>>

\* ------------------------------------------------------- processRemoteFile
\* if (fileNodeID) datum.localFile___NODE = fileNodeID
Attach(datum, ref) == IF ref # NoRef THEN [datum EXCEPT !.localFile = ref] ELSE datum

\* processRemoteFile returns datum i with fileNodeID ref
Settle(i, ref, how) ==
  /\ nodes' = [nodes EXCEPT ![i] = Attach(nodes[i], ref)]
  /\ fileNodeID' = [fileNodeID EXCEPT ![i] = ref]
  /\ pc' = [pc EXCEPT ![i] = "settled"]
  /\ outcome' = [outcome EXCEPT ![i] = how]

\* a lookup whose answer is ignored
CacheHit_never(entry) == FALSE

\* if (cacheRemoteData)
CacheHit(entry) == entry.present

\* cache.get answered with an entry: its fileNodeID is taken and touched, and
\* when it is set nothing is requested
CacheGetHit(i) ==
  /\ phase = "awaiting" /\ pc[i] = "cacheGet"
  /\ CacheHit(cache[nodes[i].id])
  /\ cache[nodes[i].id].fileNodeID # NoRef
  /\ touched' = touched \cup {cache[nodes[i].id].fileNodeID}
  /\ Settle(i, cache[nodes[i].id].fileNodeID, "hit")
  /\ UNCHANGED <<listing, options, run, phase, data, sink, cache, urlCalls,
                 createCalls, prevRef>>

\* cache.get answered with nothing usable: getTemporaryUrl is called
CacheGetMiss(i) ==
  /\ phase = "awaiting" /\ pc[i] = "cacheGet"
  /\ ~(CacheHit(cache[nodes[i].id]) /\ cache[nodes[i].id].fileNodeID # NoRef)
  /\ touched' = IF CacheHit(cache[nodes[i].id])
                THEN touched \cup {cache[nodes[i].id].fileNodeID} ELSE touched
  /\ urlCalls' = [urlCalls EXCEPT ![i] = @ + 1]
  /\ pc' = [pc EXCEPT ![i] = "urlWait"]
  /\ UNCHANGED <<listing, options, run, phase, data, nodes, fileNodeID, sink, cache,
                 outcome, createCalls, prevRef>>

\* filesGetTemporaryLink answered: createRemoteFileNode is called
UrlFulfilled(i) ==
  /\ phase = "awaiting" /\ pc[i] = "urlWait"
  /\ createCalls' = [createCalls EXCEPT ![i] = @ + 1]
  /\ pc' = [pc EXCEPT ![i] = "createWait"]
  /\ UNCHANGED <<listing, options, run, phase, data, nodes, fileNodeID, sink, cache,
                 touched, outcome, urlCalls, prevRef>>

\* the same without the try/catch: the rejection leaves the callback
UrlRejected_uncaught(i) ==
  /\ phase = "awaiting" /\ pc[i] = "urlWait"
  /\ phase' = "rejected"
  /\ UNCHANGED <<listing, options, run, data, nodes, pc, fileNodeID, sink, cache,
                 touched, outcome, urlCalls, createCalls, prevRef>>

\* filesGetTemporaryLink threw: caught and logged
UrlRejected(i) ==
  /\ phase = "awaiting" /\ pc[i] = "urlWait"
  /\ Settle(i, NoRef, "urlFailed")
  /\ UNCHANGED <<listing, options, run, phase, data, sink, cache, touched, urlCalls,
                 createCalls, prevRef>>

\* createRemoteFileNode returned a file node: cache.set is called
CreateReturnedNode(i) ==
  /\ phase = "awaiting" /\ pc[i] = "createWait"
  /\ fileNodeID' = [fileNodeID EXCEPT ![i] = NewFileNodeId(nodes[i].id, run)]
  /\ pc' = [pc EXCEPT ![i] = "setWait"]
  /\ UNCHANGED <<listing, options, run, phase, data, nodes, sink, cache, touched,
                 outcome, urlCalls, createCalls, prevRef>>

\* the same with cache.set outside if (fileNode)
CreateReturnedNothing_stored(i) ==
  /\ phase = "awaiting" /\ pc[i] = "createWait"
  /\ pc' = [pc EXCEPT ![i] = "setWait"]
  /\ UNCHANGED <<listing, options, run, phase, data, nodes, fileNodeID, sink, cache,
                 touched, outcome, urlCalls, createCalls, prevRef>>

\* createRemoteFileNode returned nothing: if (fileNode) is skipped
CreateReturnedNothing(i) ==
  /\ phase = "awaiting" /\ pc[i] = "createWait"
  /\ Settle(i, NoRef, "createdNothing")
  /\ UNCHANGED <<listing, options, run, phase, data, sink, cache, touched, urlCalls,
                 createCalls, prevRef>>

\* createRemoteFileNode threw: caught and logged
CreateRejected(i) ==
  /\ phase = "awaiting" /\ pc[i] = "createWait"
  /\ Settle(i, NoRef, "createFailed")
  /\ UNCHANGED <<listing, options, run, phase, data, sink, cache, touched, urlCalls,
                 createCalls, prevRef>>

\* cache.set(remoteDataCacheKey, { fileNodeID }) done
CacheSetDone(i) ==
  /\ phase = "awaiting" /\ pc[i] = "setWait"
  /\ cache' = [cache EXCEPT ![nodes[i].id] = Entry(fileNodeID[i])]
  /\ Settle(i, fileNodeID[i], "created")
  /\ UNCHANGED <<listing, options, run, phase, data, sink, touched, urlCalls,
                 createCalls, prevRef>>

\* ------------------------------------------- the callbacks and Promise.all
\* the same without the await
CanRegister_unawaited(i) == sink[i] = <<>>

\* createNode(node) runs once, after await processRemoteFile
CanRegister(i) == pc[i] = "settled" /\ sink[i] = <<>>

Register(i) ==
  /\ phase = "awaiting"
  /\ CanRegister(i)
  /\ sink' = [sink EXCEPT ![i] = Append(@, nodes[i])]
  /\ UNCHANGED <<listing, options, run, phase, data, nodes, pc, fileNodeID, cache,
                 touched, outcome, urlCalls, createCalls, prevRef>>

\* the first callback to return completes the run
AllFulfilled_any == \E i \in Idx : sink[i] # <<>>

\* Promise.all: every callback has returned
AllFulfilled == \A i \in Idx : sink[i] # <<>>

Resolve ==
  /\ phase = "awaiting"
  /\ AllFulfilled
  /\ phase' = "resolved"
  /\ UNCHANGED <<listing, options, run, data, nodes, pc, fileNodeID, sink, cache,
                 touched, outcome, urlCalls, createCalls, prevRef>>

\* localFile___NODE of the node with id k in nodeData, if there is one
RefOf(k) ==
  IF \E i \in Idx : nodes[i].id = k
  THEN nodes[CHOOSE i \in Idx : nodes[i].id = k].localFile
  ELSE NoRef

\* the next build: sourceNodes is called again, the cache is what it was left
NextRun ==
  /\ phase \in {"resolved", "rejected"}
  /\ run < MaxRuns
  /\ run' = run + 1
  /\ phase' = "start"
  /\ prevRef' = [k \in Ids |-> RefOf(k)]
  /\ data' = [hasEntries |-> FALSE, entries |-> <<>>]
  /\ nodes' = <<>>
  /\ pc' = <<>>
  /\ fileNodeID' = <<>>
  /\ sink' = <<>>
  /\ touched' = {}
  /\ outcome' = <<>>
  /\ urlCalls' = <<>>
  /\ createCalls' = <<>>
  /\ UNCHANGED <<listing, options, cache>>

Next ==
  \/ GetDataListed
  \/ GetDataFailed
  \/ SourceNodesThrows
  \/ SourceNodesDispatch
  \/ \E i \in Idx : CacheGetHit(i)
  \/ \E i \in Idx : CacheGetMiss(i)
  \/ \E i \in Idx : UrlFulfilled(i)
  \/ \E i \in Idx : UrlRejected(i)
  \/ \E i \in Idx : CreateReturnedNode(i)
  \/ \E i \in Idx : CreateReturnedNothing(i)
  \/ \E i \in Idx : CreateRejected(i)
  \/ \E i \in Idx : CacheSetDone(i)
  \/ \E i \in Idx : Register(i)
  \/ Resolve
  \/ NextRun

Spec == Init /\ [][Next]_vars

\* createNodeData applied to every listing and option set
NextNodes ==
  \/ GetDataListed
  \/ GetDataFailed
  \/ SourceNodesThrows
  \/ SourceNodesDispatch

SpecNodes == InitNodes /\ [][NextNodes]_vars

\* ------------------------------------------------------------------ claims
Failed == {"urlFailed", "createFailed", "createdNothing"}

\* the ids in the relation lists of folder node f
Related(f) ==
  {f.dropboxImage[j] : j \in 1..Len(f.dropboxImage)}
    \cup {f.dropboxMarkdown[j] : j \in 1..Len(f.dropboxMarkdown)}

FolderIdx == {i \in Idx : nodes[i].type = TYPE_FOLDER}
LinkableIdx == {i \in Idx : nodes[i].type \in {TYPE_IMAGE, TYPE_MARKDOWN}}

\* the entries of the listing that pass the extension filter
AllowedFiles ==
  {k \in 1..Len(listing) :
     listing[k].tag = "file" /\ Extname(listing[k].name) \in options.extensions}

\* C1: when filesGetMetadata or filesListFolder fails, the run of sourceNodes
\* does not reject, and it resolves with nothing registered.
C1_ListingFailureGivesEmptyRun ==
  (phase # "start" /\ ~data.hasEntries) =>
     /\ phase # "rejected"
     /\ phase = "resolved" => nodes = <<>>

\* C2: whichever downloads fail (getTemporaryUrl or createRemoteFileNode), the
\* run resolves with every node of the listing registered; a registered node
\* carries localFile___NODE exactly when its materialization succeeded.
C2_FailedDownloadsStillRegistered ==
  (phase \in {"resolved", "rejected"} /\ data.hasEntries) =>
     /\ phase = "resolved"
     /\ Len(nodes) = Len(createNodeData(data, options))
     /\ \A i \in Idx :
          /\ Len(sink[i]) = 1
          /\ sink[i][1].id = createNodeData(data, options)[i].id
          /\ sink[i][1].localFile # NoRef <=> outcome[i] \in {"hit", "created"}
          /\ outcome[i] \in Failed => sink[i][1].localFile = NoRef

\* three file nodes, one download failed, all registered, two with a file
C2_Witness ==
  /\ phase = "resolved"
  /\ Cardinality({i \in Idx : outcome[i] = "created"}) = 2
  /\ Cardinality({i \in Idx : outcome[i] \in {"urlFailed", "createFailed"}}) = 1
  /\ Cardinality({i \in Idx : sink[i] # <<>> /\ sink[i][1].localFile # NoRef}) = 2
  /\ \A i \in Idx : sink[i] # <<>>

\* C3: a node the previous run attached a file to is, in the next run over
\* the same listing and the cache that run left, never downloaded again
\* (no getTemporaryUrl, no createRemoteFileNode), gets the same
\* localFile___NODE, and that file node is touched.
C3_WarmCacheIsIdempotent ==
  \A i \in Idx :
    (run >= 2 /\ prevRef[nodes[i].id] # NoRef) =>
       /\ urlCalls[i] = 0
       /\ createCalls[i] = 0
       /\ pc[i] = "settled" =>
            /\ nodes[i].localFile = prevRef[nodes[i].id]
            /\ prevRef[nodes[i].id] \in touched
       /\ sink[i] # <<>> => sink[i][1].localFile = prevRef[nodes[i].id]

\* a second run resolved with a node served from the cache
C3_Witness ==
  /\ run = 2
  /\ phase = "resolved"
  /\ \E i \in Idx :
       /\ prevRef[nodes[i].id] # NoRef
       /\ outcome[i] = "hit"
       /\ sink[i][1].localFile = prevRef[nodes[i].id]

\* the type the extension-to-type mapping gives an extension
MappedType(ext) ==
  IF ext = EXT_MD THEN TYPE_MARKDOWN
  ELSE IF ext \in {EXT_PNG, EXT_JPG} THEN TYPE_IMAGE
  ELSE TYPE_DEFAULT

\* C4: with createFolderNodes, every file entry with an allowed extension
\* gives exactly one node, of the type the mapping gives its extension:
\* .md Markdown, .png and .jpg Image, any other allowed extension Default.
C4_TypeFollowsExtension ==
  (phase = "awaiting" /\ options.createFolderNodes) =>
     \A k \in AllowedFiles :
       /\ Cardinality({i \in Idx : nodes[i].id = listing[k].id}) = 1
       /\ \A i \in Idx :
            nodes[i].id = listing[k].id =>
              nodes[i].type = MappedType(Extname(listing[k].name))

\* a file node's path has no parent segment: its only slash is the first
AtRoot(n) == LastIndexOf(n.path, "/") = 1

\* C5: with createFolderNodes, an Image or Markdown node directly under the
\* root is in the relation list of a folder named root, and of the
\* synthetic root (id dropboxRoot) when the listing has no folder named root.
C5_RootFilesBelongToRoot ==
  (phase = "awaiting" /\ options.createFolderNodes) =>
     \A i \in LinkableIdx :
       AtRoot(nodes[i]) =>
         IF \E f \in FolderIdx : nodes[f].name = ROOT
         THEN \E f \in FolderIdx :
                nodes[f].name = ROOT /\ nodes[i].id \in Related(nodes[f])
         ELSE \E f \in FolderIdx :
                nodes[f].id = "dropboxRoot" /\ nodes[i].id \in Related(nodes[f])

\* C6: the id of a file node is in the relation lists of at most one folder
\* node, also when several folders of the listing have the same name.
C6_AtMostOneFolder ==
  phase = "awaiting" =>
     \A i \in Idx :
       Cardinality({f \in FolderIdx : nodes[i].id \in Related(nodes[f])}) <= 1

\* the last directory name before the file name (b for /a/b/c.md), root for a
\* path with no parent segment
ParentSegment(p) ==
  LET dir == SubSeq(p, 1, LastIndexOf(p, "/") - 1)
  IN  IF dir = <<>> THEN ROOT ELSE Basename(dir)

\* C7: an Image or Markdown node, at any depth, is in the relation list of
\* folder node F exactly when the parent directory segment of its path is
\* F's name.
C7_MemberIffParentSegment ==
  phase = "awaiting" =>
     \A f \in FolderIdx : \A i \in LinkableIdx :
       nodes[i].id \in Related(nodes[f])
         <=> ParentSegment(nodes[i].path) = nodes[f].name

\* C8: sourceNodes neither resolves nor rejects before the materialization
\* of every node of the batch has settled.
C8_CompletesAfterAllSettled ==
  phase \in {"resolved", "rejected"} => \A i \in Idx : pc[i] = "settled"

\* resolved after one download failed and another succeeded
C8_Witness ==
  /\ phase = "resolved"
  /\ \E i \in Idx : outcome[i] \in Failed
  /\ \E i \in Idx : outcome[i] = "created"

\* C9: each node is given to createNode at most once and only after its own
\* processRemoteFile has returned, every node has been given once the run
\* resolves, and a node is as it was given from then on.
C9_RegisteredOnceAfterSettled ==
  \A i \in Idx :
    /\ Len(sink[i]) <= 1
    /\ sink[i] # <<>> => (pc[i] = "settled" /\ sink[i][1] = nodes[i])
    /\ phase = "resolved" => Len(sink[i]) = 1

\* a node registered with its file while another is still downloading
C9_Witness ==
  /\ phase = "awaiting"
  /\ \E i \in Idx : sink[i] # <<>> /\ sink[i][1].localFile # NoRef
  /\ \E j \in Idx : pc[j] \in {"urlWait", "createWait"} /\ sink[j] = <<>>

\* C10: a cache entry changes only in the step that ends a successful
\* materialization: the entry of a file node for which createRemoteFileNode
\* returned a file node, set to that file node's id. Failed or empty
\* downloads and folder nodes leave the cache as it is.
C10_CacheWrittenOnlyOnSuccess ==
  [][\A k \in Ids :
       cache'[k] # cache[k] =>
         \E i \in Idx :
           /\ nodes[i].id = k
           /\ IsFileType(nodes[i].type)
           /\ createCalls[i] = 1
           /\ pc[i] = "setWait"
           /\ fileNodeID[i] = NewFileNodeId(k, run)
           /\ cache'[k] = Entry(fileNodeID[i])
           /\ outcome'[i] = "created"]_vars

\* a run resolved with one file cached and a failed one not
C10_Witness ==
  /\ phase = "resolved"
  /\ \E i \in Idx : outcome[i] = "created" /\ cache[nodes[i].id] = Entry(nodes[i].localFile)
  /\ \E i \in Idx : outcome[i] \in Failed /\ cache[nodes[i].id] = NoEntry
  /\ \E i \in Idx : nodes[i].type = TYPE_FOLDER /\ cache[nodes[i].id] = NoEntry

====
